---- MODULE Spec2Model ----
(***************************************************************************)
(* Model of the lazy etcd service discovery of pitaya-rs                   *)
(* (src/cluster/discovery/mod.rs): the ServersCache with its two indices   *)
(* and its broadcast notification channel, and the EtcdLazy engine that    *)
(* fills the cache from prefix reads and from the watch consumer.          *)
(***************************************************************************)
EXTENDS Integers, Sequences, FiniteSets, TLC

\* ------------------------------------------------------------------ bounds

\* Notifications the cache may send in one behaviour.
MaxSent == 3

\* The max_chan_size a cache on its own is created with (ServersCache::new
\* takes it as an argument); small, so that a receiver can fall behind
\* within MaxSent notifications.
ChanCap == 2

\* The max_chan_size EtcdLazy::new creates its cache with: 80 in the code,
\* here the smallest size that, like 80, is no power of two.
max_chan_size == 3

\* ------------------------------------------------------------- data model

\* ServerId values, in the lexical order in which etcd returns keys.
SortedIds == <<"a", "b">>

Ids == {SortedIds[i] : i \in 1..Len(SortedIds)}

Kinds == {"room", "conn"}

\* Stands for the fields of a Server other than id and kind.
Hostnames == {"h1"}

Server == [id : Ids, kind : Kinds, hostname : Hostnames]

ServerAdded(s) == [type |-> "ServerAdded", server |-> s]

ServerRemoved(s) == [type |-> "ServerRemoved", server |-> s]

\* The subscribers. A receiver reads the channel and moves its own cursor
\* only, so what one subscriber gets does not depend on the others.
Subs == {"s1"}

\* --------------------------------------------------------------- variables

VARIABLES
    servers_by_id,      \* ServersCache.servers_by_id : ServerId -> Server
    servers_by_kind,    \* ServersCache.servers_by_kind : ServerKind -> (ServerId -> Server)
    chan,               \* every notification sent on notification_chan.0, in order
    rx,                 \* the receivers handed out by subscribe
    step,               \* the ServersCache call the latest step made, if any
    store,              \* the etcd keys under {prefix}/servers/ with their values
    watch_stream,       \* the watch events the watch task has not consumed yet
    lease_id,           \* EtcdLazy.lease_id: 0 for None
    keep_alive_task,    \* EtcdLazy.keep_alive_task.is_some()
    watch_task,         \* EtcdLazy.watch_task.is_some()
    pc,                 \* where the caller of the engine is in its current call
    call,               \* the current call: its arguments and what it did so far
    resp,               \* the values of the prefix read the fill still has to insert
    ret,                \* the result of the call that has just returned
    peer_ops,           \* how many times the other servers changed the store
    chan_cap,           \* how many notifications notification_chan retains
    ka,                 \* the task spawned on tasks::lease_keep_alive
    stop_signal,        \* the one-shot channel from stop to the keep-alive task
    app_die,            \* who fired the app-die signal, in order
    wt,                 \* the task spawned on tasks::watch_task
    stop_log,           \* what the current or latest stop did, in order
    self_lease          \* the lease this server's key is bound to in the store: 0 for none

cache_vars == <<servers_by_id, servers_by_kind, chan, chan_cap>>

\* The background tasks and what start and stop exchange with them.
life_vars == <<ka, stop_signal, app_die, wt, stop_log, self_lease>>

engine_vars ==
    <<store, watch_stream, lease_id, keep_alive_task, watch_task, pc, call, resp, ret, peer_ops,
      life_vars>>

vars == <<servers_by_id, servers_by_kind, chan, rx, step, store, watch_stream,
          lease_id, keep_alive_task, watch_task, pc, call, resp, ret, peer_ops,
          chan_cap, ka, stop_signal, app_die, wt, stop_log, self_lease>>

NoCall == [op |-> "none"]

InsertCall(server, by) == [op |-> "insert", server |-> server, by |-> by]

RemoveCall(kind, id, by) == [op |-> "remove", kind |-> kind, id |-> id, by |-> by]

\* ------------------------------------------------------- ServersCache

EmptyMap == [x \in {} |-> {}]

\* HashMap::insert(key, value) on a map held as a function.
MapInsert(m, k, v) == [x \in DOMAIN m \cup {k} |-> IF x = k THEN v ELSE m[x]]

\* HashMap::remove(key) on a map held as a function.
MapRemove(m, k) == [x \in DOMAIN m \ {k} |-> m[x]]

\* A faulty insert that notifies of every call.
InsertNotifiesAlways(byId, s) == TRUE

\* insert: servers_by_id.insert returned None, so the or_else branch notifies.
InsertNotifies(byId, s) == s.id \notin DOMAIN byId

\* insert: servers_by_id after the call.
InsertById(byId, s) == MapInsert(byId, s.id, s)

\* insert: servers_by_kind after the call (entry / and_modify / or_insert).
InsertByKind(byKind, s) ==
    IF s.kind \in DOMAIN byKind
    THEN MapInsert(byKind, s.kind, MapInsert(byKind[s.kind], s.id, s))
    ELSE MapInsert(byKind, s.kind, MapInsert(EmptyMap, s.id, s))

\* remove: servers_by_id.remove returned Some(server), so the map closure notifies.
RemoveNotifies(byId, server_id) == server_id \in DOMAIN byId

\* A faulty remove that notifies and leaves the record in servers_by_id.
RemoveByIdKeeps(byId, server_id) == byId

\* remove: servers_by_id after the call.
RemoveById(byId, server_id) == MapRemove(byId, server_id)

\* remove: servers_by_kind after the call: the whole entry of server_kind goes.
RemoveByKind(byKind, server_kind, server_id) == MapRemove(byKind, server_kind)

\* A faulty notify that sends every notification twice.
NotifyTwice(ch, notification) == Append(Append(ch, notification), notification)

\* notify: the send on the broadcast channel. The cache keeps a receiver of
\* its own, so the send always succeeds and never blocks.
Notify(ch, notification) == Append(ch, notification)

\* ServersCache::insert as one step under the write lock.
CacheInsert(server) ==
    /\ servers_by_id' = InsertById(servers_by_id, server)
    /\ servers_by_kind' = InsertByKind(servers_by_kind, server)
    /\ chan' = IF InsertNotifies(servers_by_id, server)
               THEN Notify(chan, ServerAdded(server))
               ELSE chan
    /\ UNCHANGED chan_cap

\* ServersCache::remove as one step under the write lock.
CacheRemove(server_kind, server_id) ==
    /\ servers_by_id' = RemoveById(servers_by_id, server_id)
    /\ servers_by_kind' = RemoveByKind(servers_by_kind, server_kind, server_id)
    /\ chan' = IF RemoveNotifies(servers_by_id, server_id)
               THEN Notify(chan, ServerRemoved(servers_by_id[server_id]))
               ELSE chan
    /\ UNCHANGED chan_cap

\* ------------------------------------------------- broadcast receivers

NoReceiver == [state |-> "none", start |-> 0, next |-> 0, got |-> <<>>]

RECURSIVE PowerOfTwoFrom(_, _)
PowerOfTwoFrom(p, n) == IF p >= n THEN p ELSE PowerOfTwoFrom(2 * p, n)

\* A faulty channel that retains exactly as many values as were asked for.
ExactCapacity(capacity) == capacity

\* broadcast::channel(capacity): the buffer is as long as the next power of
\* two, and that is how many values the channel retains.
NextPowerOfTwo(capacity) == PowerOfTwoFrom(1, capacity)

\* Position of the oldest notification the channel still retains.
OldestRetained(ch) == IF Len(ch) > chan_cap THEN Len(ch) - chan_cap ELSE 0

\* A faulty subscribe that hands out a copy of the receiver the cache keeps,
\* which has read nothing of what the channel retains.
NewReceiverOfRetained(ch) ==
    [state |-> "active", start |-> OldestRetained(ch), next |-> OldestRetained(ch), got |-> <<>>]

\* Sender::subscribe: the new receiver sees only what is sent afterwards.
NewReceiver(ch) == [state |-> "active", start |-> Len(ch), next |-> Len(ch), got |-> <<>>]

\* Receiver::recv on a receiver that fell behind: Err(Lagged(missed)), and the
\* cursor moves to the oldest retained notification.
RecvLagged(r, ch) ==
    [r EXCEPT !.next = OldestRetained(ch),
              !.got = Append(@, [type |-> "Lagged", missed |-> OldestRetained(ch) - r.next])]

\* Receiver::recv returning Ok(notification).
RecvValue(r, ch) ==
    [r EXCEPT !.next = @ + 1, !.got = Append(@, ch[r.next + 1])]

\* Receiver::recv when something is ready for the receiver.
RecvStep(r, ch) ==
    IF r.next < OldestRetained(ch) THEN RecvLagged(r, ch) ELSE RecvValue(r, ch)

\* ServersCache::subscribe.
Subscribe(r) ==
    /\ rx[r].state = "none"
    /\ rx' = [rx EXCEPT ![r] = NewReceiver(chan)]
    /\ step' = NoCall
    /\ UNCHANGED cache_vars
    /\ UNCHANGED engine_vars

\* A subscriber task awaiting recv gets the next item.
Recv(r) ==
    /\ rx[r].state = "active"
    /\ rx[r].next < Len(chan)
    /\ rx' = [rx EXCEPT ![r] = RecvStep(rx[r], chan)]
    /\ step' = NoCall
    /\ UNCHANGED cache_vars
    /\ UNCHANGED engine_vars

\* The subscriber drops its receiver.
Unsubscribe(r) ==
    /\ rx[r].state = "active"
    /\ rx' = [rx EXCEPT ![r].state = "dropped"]
    /\ step' = NoCall
    /\ UNCHANGED cache_vars
    /\ UNCHANGED engine_vars

\* ------------------------------------------------------------ EtcdLazy

\* Changes the other servers may make to the store in one behaviour.
MaxPeerOps == 3

\* The server this engine registers (EtcdLazy.this_server).
this_server == [id |-> "a", kind |-> "room", hostname |-> "h1"]

\* A value that is no JSON of a Server.
Garbage == <<"garbage">>

\* serde_json::to_vec(&server): the JSON text, held as the list of its fields.
Encode(s) == <<"json", s.id, s.kind, s.hostname>>

\* A faulty decoding that takes a value it cannot read for a default server.
DecodeOrDefault(v) ==
    IF Len(v) = 4 /\ v[1] = "json" /\ v[2] \in Ids /\ v[3] \in Kinds /\ v[4] \in Hostnames
    THEN [ok |-> TRUE, server |-> [id |-> v[2], kind |-> v[3], hostname |-> v[4]]]
    ELSE [ok |-> TRUE, server |-> this_server]

\* serde_json::from_str::<Server>(value): the server, or an error.
Decode(v) ==
    IF Len(v) = 4 /\ v[1] = "json" /\ v[2] \in Ids /\ v[3] \in Kinds /\ v[4] \in Hostnames
    THEN [ok |-> TRUE, server |-> [id |-> v[2], kind |-> v[3], hostname |-> v[4]]]
    ELSE [ok |-> FALSE]

\* get_etcd_server_key: {prefix}/servers/{kind}/{id}, held as <<kind, id>>.
EtcdServerKey(s) == <<s.kind, s.id>>

\* The ids, in key order, that the store holds under server_kind_prefix(kind).
RECURSIVE IdsUnderPrefix(_, _, _)
IdsUnderPrefix(st, kind, i) ==
    IF i > Len(SortedIds) THEN <<>>
    ELSE (IF <<kind, SortedIds[i]>> \in DOMAIN st THEN <<SortedIds[i]>> ELSE <<>>)
         \o IdsUnderPrefix(st, kind, i + 1)

\* client.get(server_kind_prefix(kind), with_prefix): the values, in key order.
PrefixRead(st, kind) ==
    LET ids == IdsUnderPrefix(st, kind, 1) IN
    [i \in 1..Len(ids) |-> st[<<kind, ids[i]>>]]

\* A faulty lookup that never finds the server.
OnlyServerByIdMisses(byId, server_id) == {}

\* only_server_by_id: the cached server as a set of at most one.
OnlyServerById(byId, server_id) ==
    IF server_id \in DOMAIN byId THEN {byId[server_id]} ELSE {}

\* A faulty listing that returns the servers of every kind.
OnlyServersOfAnyKind(byKind, server_kind) ==
    UNION {{byKind[k][id] : id \in DOMAIN byKind[k]} : k \in DOMAIN byKind}

\* only_servers_by_kind: the values of servers_by_kind[kind], or none.
OnlyServersByKind(byKind, server_kind) ==
    IF server_kind \in DOMAIN byKind
    THEN {byKind[server_kind][id] : id \in DOMAIN byKind[server_kind]}
    ELSE {}

NoCurrentCall ==
    [op |-> "none", kind |-> "", id |-> "", reads |-> 0, alone |-> TRUE,
     by_id0 |-> EmptyMap, by_kind0 |-> EmptyMap, sent0 |-> 0, peer_ops0 |-> 0,
     read |-> <<>>]

\* A call starts. Beside its arguments the record keeps, for the properties
\* below, the cache, the notifications sent and the store changes as the
\* call finds them, the store reads it makes (reads) with the values of the
\* fill's read (read), and whether the watch task applied no event meanwhile
\* (alone).
NewCall(op, kind, id) ==
    [op |-> op, kind |-> kind, id |-> id, reads |-> 0, alone |-> TRUE,
     by_id0 |-> servers_by_id, by_kind0 |-> servers_by_kind, sent0 |-> Len(chan),
     peer_ops0 |-> peer_ops, read |-> <<>>]

NoReturn == [status |-> "none", value |-> {}]

\* Ok(value) or Err(_) as the caller gets it; value is the set of servers.
Returned(status, value) == [status |-> status, value |-> value]

\* A task that was not spawned.
NoTask == [state |-> "none", failures |-> 0, exit |-> "none"]

\* tokio::spawn(tasks::lease_keep_alive(..)): the task starts in Idle.
SpawnedKeepAlive == [state |-> "idle", failures |-> 0, exit |-> "none"]

\* EtcdLazy::new: nothing granted, nothing spawned, the cache empty.
InitEngine ==
    /\ watch_stream = <<>>
    /\ lease_id = 0
    /\ keep_alive_task = FALSE
    /\ watch_task = FALSE
    /\ pc = "idle"
    /\ call = NoCurrentCall
    /\ resp = <<>>
    /\ ret = NoReturn
    /\ peer_ops = 0
    /\ ka = NoTask
    /\ stop_signal = "none"
    /\ app_die = <<>>
    /\ wt = "none"
    /\ stop_log = <<>>
    /\ self_lease = 0

\* A call of the engine returns to its caller.
Return(c, status, value) ==
    /\ pc' = "returned"
    /\ call' = c
    /\ resp' = <<>>
    /\ ret' = Returned(status, value)

\* The caller has the result and may call again.
Resume ==
    /\ pc = "returned"
    /\ pc' = "idle"
    /\ call' = NoCurrentCall
    /\ ret' = NoReturn
    /\ step' = NoCall
    /\ UNCHANGED <<cache_vars, rx, store, watch_stream, lease_id, keep_alive_task,
                   watch_task, resp, peer_ops>>
    /\ UNCHANGED life_vars

\* The events of the watch stream: the kind of change, the key, and for a
\* Put the value written.
PutEvent(key, value) == [type |-> "Put", key |-> key, value |-> value]

DeleteEvent(key) == [type |-> "Delete", key |-> key, value |-> <<>>]

\* A faulty order in start: the watch is there before the put.
WatchedFromTheStart(ev) == watch_stream' = Append(watch_stream, ev)

\* A change of the store reaches the watch stream when the watch of
\* start_watch exists, and only then: a watch reports what changes after
\* its creation.
Watched(ev) ==
    watch_stream' = IF watch_task THEN Append(watch_stream, ev) ELSE watch_stream

\* start: grant_lease passes its two assertions and awaits lease_grant.
StartLeaseGrant ==
    /\ pc = "idle"
    /\ lease_id = 0
    /\ ~keep_alive_task
    /\ \/ /\ lease_id' = 1
          /\ pc' = "start_keep_alive"
          /\ call' = NewCall("start", "", "")
          /\ UNCHANGED <<resp, ret>>
       \/ /\ Return(NewCall("start", "", ""), "err", {})
          /\ UNCHANGED lease_id
    /\ step' = NoCall
    /\ UNCHANGED <<cache_vars, rx, store, watch_stream, keep_alive_task, watch_task, peer_ops>>
    /\ UNCHANGED life_vars

\* start: grant_lease awaits lease_keep_alive and spawns the keep-alive task.
StartKeepAlive ==
    /\ pc = "start_keep_alive"
    /\ \/ /\ keep_alive_task' = TRUE
          /\ ka' = SpawnedKeepAlive
          /\ pc' = "start_put"
          /\ UNCHANGED <<call, resp, ret>>
       \/ /\ Return(call, "err", {})
          /\ UNCHANGED <<keep_alive_task, ka>>
    /\ step' = NoCall
    /\ UNCHANGED <<cache_vars, rx, store, watch_stream, lease_id, watch_task, peer_ops>>
    /\ UNCHANGED <<stop_signal, app_die, wt, stop_log, self_lease>>

\* start: add_server_to_etcd puts this server under its key with the lease.
\* No watch exists yet, so the put makes no watch event.
StartPut ==
    /\ pc = "start_put"
    /\ \/ /\ store' = MapInsert(store, EtcdServerKey(this_server), Encode(this_server))
          /\ Watched(PutEvent(EtcdServerKey(this_server), Encode(this_server)))
          /\ self_lease' = lease_id
          /\ pc' = "start_watch"
          /\ UNCHANGED <<call, resp, ret>>
       \/ /\ Return(call, "err", {})
          /\ UNCHANGED <<store, watch_stream, self_lease>>
    /\ step' = NoCall
    /\ UNCHANGED <<cache_vars, rx, lease_id, keep_alive_task, watch_task, peer_ops>>
    /\ UNCHANGED <<ka, stop_signal, app_die, wt, stop_log>>

\* start: start_watch creates the watch on {prefix}/servers/ and spawns the
\* watch task; the watch reports the changes made after its creation.
StartWatch ==
    /\ pc = "start_watch"
    /\ \/ /\ watch_task' = TRUE
          /\ wt' = "running"
          /\ watch_stream' = <<>>
          /\ Return(call, "ok", {})
       \/ /\ Return(call, "err", {})
          /\ UNCHANGED <<watch_task, wt, watch_stream>>
    /\ step' = NoCall
    /\ UNCHANGED <<cache_vars, rx, store, lease_id, keep_alive_task, peer_ops>>
    /\ UNCHANGED <<ka, stop_signal, app_die, stop_log, self_lease>>

\* server_by_id: the first only_server_by_id; a hit returns at once.
ServerById(server_id, server_kind) ==
    /\ pc = "idle"
    /\ IF OnlyServerById(servers_by_id, server_id) # {}
       THEN Return(NewCall("server_by_id", server_kind, server_id), "ok",
                   OnlyServerById(servers_by_id, server_id))
       ELSE /\ pc' = "sbi_get"
            /\ call' = NewCall("server_by_id", server_kind, server_id)
            /\ UNCHANGED <<resp, ret>>
    /\ step' = NoCall
    /\ UNCHANGED <<cache_vars, rx, store, watch_stream, lease_id, keep_alive_task, watch_task, peer_ops>>
    /\ UNCHANGED life_vars

\* server_by_id: the prefix read of its own, whose result is only logged.
ServerByIdGet ==
    /\ pc = "sbi_get"
    /\ \/ /\ pc' = "fill_get"
          /\ call' = [call EXCEPT !.reads = @ + 1]
          /\ UNCHANGED <<resp, ret>>
       \/ Return([call EXCEPT !.reads = @ + 1], "err", {})
    /\ step' = NoCall
    /\ UNCHANGED <<cache_vars, rx, store, watch_stream, lease_id, keep_alive_task, watch_task, peer_ops>>
    /\ UNCHANGED life_vars

\* servers_by_kind: the first only_servers_by_kind.
ServersByKind(server_kind) ==
    /\ pc = "idle"
    /\ pc' = IF OnlyServersByKind(servers_by_kind, server_kind) = {}
             THEN "fill_get" ELSE "final_read"
    /\ call' = NewCall("servers_by_kind", server_kind, "")
    /\ step' = NoCall
    /\ UNCHANGED <<resp, ret>>
    /\ UNCHANGED <<cache_vars, rx, store, watch_stream, lease_id, keep_alive_task, watch_task, peer_ops>>
    /\ UNCHANGED life_vars

\* cache_server_kind: the prefix read.
CacheServerKindGet ==
    /\ pc = "fill_get"
    /\ \/ /\ pc' = "fill_loop"
          /\ resp' = PrefixRead(store, call.kind)
          /\ call' = [call EXCEPT !.reads = @ + 1, !.read = PrefixRead(store, call.kind)]
          /\ UNCHANGED ret
       \/ Return([call EXCEPT !.reads = @ + 1], "err", {})
    /\ step' = NoCall
    /\ UNCHANGED <<cache_vars, rx, store, watch_stream, lease_id, keep_alive_task, watch_task, peer_ops>>
    /\ UNCHANGED life_vars

\* A faulty loop that decodes every value read before it inserts any.
CacheServerKindLoopDecodesFirst ==
    /\ pc = "fill_loop"
    /\ resp # <<>>
    /\ IF \A i \in 1..Len(resp) : Decode(resp[i]).ok
       THEN /\ CacheInsert(Decode(Head(resp)).server)
            /\ step' = InsertCall(Decode(Head(resp)).server, "fill")
            /\ resp' = Tail(resp)
            /\ UNCHANGED <<pc, call, ret>>
       ELSE /\ Return(call, "err", {})
            /\ step' = NoCall
            /\ UNCHANGED cache_vars
    /\ UNCHANGED <<rx, store, watch_stream, lease_id, keep_alive_task, watch_task, peer_ops>>
    /\ UNCHANGED life_vars

\* cache_server_kind: one turn of the loop over resp.kvs(): decode the value
\* and insert the server under the write lock, or return the decode error.
CacheServerKindLoop ==
    /\ pc = "fill_loop"
    /\ resp # <<>>
    /\ IF Decode(Head(resp)).ok
       THEN /\ CacheInsert(Decode(Head(resp)).server)
            /\ step' = InsertCall(Decode(Head(resp)).server, "fill")
            /\ resp' = Tail(resp)
            /\ UNCHANGED <<pc, call, ret>>
       ELSE /\ Return(call, "err", {})
            /\ step' = NoCall
            /\ UNCHANGED cache_vars
    /\ UNCHANGED <<rx, store, watch_stream, lease_id, keep_alive_task, watch_task, peer_ops>>
    /\ UNCHANGED life_vars

\* The final only_server_by_id or only_servers_by_kind, and the return.
FinalRead ==
    /\ \/ pc = "fill_loop" /\ resp = <<>>
       \/ pc = "final_read"
    /\ Return(call, "ok",
              IF call.op = "server_by_id"
              THEN OnlyServerById(servers_by_id, call.id)
              ELSE OnlyServersByKind(servers_by_kind, call.kind))
    /\ step' = NoCall
    /\ UNCHANGED <<cache_vars, rx, store, watch_stream, lease_id, keep_alive_task, watch_task, peer_ops>>
    /\ UNCHANGED life_vars

\* ------------------------------------------------- the watch task

\* The watch task takes one event off the stream: a Put is decoded and
\* inserted (a value that does not decode is logged and skipped), a Delete
\* removes by the kind and the id of its key.
WatchConsume ==
    /\ watch_task
    /\ watch_stream # <<>>
    /\ watch_stream' = Tail(watch_stream)
    /\ LET ev == Head(watch_stream) IN
       IF ev.type = "Put"
       THEN IF Decode(ev.value).ok
            THEN /\ CacheInsert(Decode(ev.value).server)
                 /\ step' = InsertCall(Decode(ev.value).server, "watch")
            ELSE /\ step' = NoCall
                 /\ UNCHANGED cache_vars
       ELSE /\ CacheRemove(ev.key[1], ev.key[2])
            /\ step' = RemoveCall(ev.key[1], ev.key[2], "watch")
    /\ call' = IF pc \in {"idle", "returned"} THEN call ELSE [call EXCEPT !.alone = FALSE]
    /\ UNCHANGED <<rx, store, lease_id, keep_alive_task, watch_task, pc, resp, ret, peer_ops>>
    /\ UNCHANGED life_vars

\* ------------------------------------------------- the other servers

\* The keys the other servers of the cluster write: all but this server's.
PeerKeys == (Kinds \X Ids) \ {EtcdServerKey(this_server)}

\* The values a server may be found to have written under a key.
ValuesOf(key) ==
    {Encode([id |-> key[2], kind |-> key[1], hostname |-> "h1"]), Garbage}

\* Another server registers, or writes its record again.
PeerPut ==
    \E key \in PeerKeys : \E v \in ValuesOf(key) :
        /\ peer_ops < MaxPeerOps
        /\ peer_ops' = peer_ops + 1
        /\ key \in DOMAIN store => store[key] # v
        /\ store' = MapInsert(store, key, v)
        /\ Watched(PutEvent(key, v))
        /\ step' = NoCall
        /\ UNCHANGED <<cache_vars, rx, lease_id, keep_alive_task, watch_task, pc, call, resp, ret>>
        /\ UNCHANGED life_vars

\* Another server's key goes: its lease was revoked or ran out.
PeerDelete ==
    \E key \in PeerKeys \cap DOMAIN store :
        /\ peer_ops < MaxPeerOps
        /\ peer_ops' = peer_ops + 1
        /\ store' = MapRemove(store, key)
        /\ Watched(DeleteEvent(key))
        /\ step' = NoCall
        /\ UNCHANGED <<cache_vars, rx, lease_id, keep_alive_task, watch_task, pc, call, resp, ret>>
        /\ UNCHANGED life_vars

\* ------------------------------------------------- the keep-alive task

\* The consecutive refresh failures after which the keep-alive task gives up.
MaxFailures == 3

KaRunning == ka.state \in {"idle", "refreshing"}

\* The task returns; its end of the one-shot channel goes with it.
KaExited(reason) == [state |-> "exited", failures |-> ka.failures, exit |-> reason]

\* app_die_sender.send(()) by the named task.
AppDie(who) == app_die' = Append(app_die, who)

\* What a step of a background task leaves alone.
TaskFrame ==
    /\ step' = NoCall
    /\ UNCHANGED <<cache_vars, rx, store, watch_stream, lease_id, keep_alive_task,
                   watch_task, pc, call, resp, ret, peer_ops, stop_log, self_lease>>

\* Idle -> Refreshing: a tick of the ttl/3 interval sends a refresh.
KaTick ==
    /\ ka.state = "idle"
    /\ ka' = [ka EXCEPT !.state = "refreshing"]
    /\ UNCHANGED <<stop_signal, app_die, wt>>
    /\ TaskFrame

\* Refreshing -> Idle: the store answered; the failures in a row start anew.
KaRefreshOk ==
    /\ ka.state = "refreshing"
    /\ ka' = [ka EXCEPT !.state = "idle", !.failures = 0]
    /\ UNCHANGED <<stop_signal, app_die, wt>>
    /\ TaskFrame

\* A refresh got no answer: one more failure, and the third in a row is
\* Stopping(failed), which fires app-die.
KaRefreshFail ==
    /\ ka.state = "refreshing"
    /\ IF ka.failures + 1 >= MaxFailures
       THEN /\ ka' = [KaExited("failed") EXCEPT !.failures = ka.failures + 1]
            /\ AppDie("keep_alive")
       ELSE /\ ka' = [ka EXCEPT !.state = "idle", !.failures = @ + 1]
            /\ UNCHANGED app_die
    /\ UNCHANGED <<stop_signal, wt>>
    /\ TaskFrame

\* The store ended the keep-alive stream: the task fires app-die and exits.
KaStreamEnd ==
    /\ KaRunning
    /\ ka' = KaExited("stream")
    /\ AppDie("keep_alive")
    /\ UNCHANGED <<stop_signal, wt>>
    /\ TaskFrame

\* A faulty task that fires app-die when it is told to stop.
KaStopFiresAppDie ==
    /\ KaRunning
    /\ stop_signal = "sent"
    /\ ka' = KaExited("clean")
    /\ stop_signal' = "received"
    /\ AppDie("keep_alive")
    /\ UNCHANGED wt
    /\ TaskFrame

\* The stop signal arrived on the one-shot channel: Stopping(clean).
KaStop ==
    /\ KaRunning
    /\ stop_signal = "sent"
    /\ ka' = KaExited("clean")
    /\ stop_signal' = "received"
    /\ UNCHANGED <<app_die, wt>>
    /\ TaskFrame

\* ------------------------------------------------- the watch task ends

\* The watch stream failed for good: the watch task fires app-die and exits.
WatchFail ==
    /\ wt = "running"
    /\ wt' = "exited"
    /\ AppDie("watch")
    /\ UNCHANGED <<ka, stop_signal>>
    /\ TaskFrame

\* The watch stream ended after the cancel of stop: the watch task exits.
WatchExit ==
    /\ wt = "cancelled"
    /\ wt' = "exited"
    /\ UNCHANGED <<ka, stop_signal, app_die>>
    /\ TaskFrame

\* ------------------------------------------------- start again, and stop

\* start: grant_lease finds a lease id or a keep-alive task already there, so
\* one of its two assertions fails and the panic unwinds out of start.
StartAssertFails ==
    /\ pc = "idle"
    /\ lease_id # 0 \/ keep_alive_task
    /\ pc' = "panicked"
    /\ call' = NewCall("start", "", "")
    /\ step' = NoCall
    /\ UNCHANGED <<cache_vars, rx, store, watch_stream, lease_id, keep_alive_task,
                   watch_task, resp, ret, peer_ops>>
    /\ UNCHANGED life_vars

\* One thing stop did, with how it went.
Did(what, result) == [what |-> what, result |-> result]

StopLog(what, result) == stop_log' = Append(stop_log, Did(what, result))

\* A faulty await that does not wait for the task.
JoinedAtOnce(task_state) == TRUE

\* handle.await completes once the task has returned.
Joined(task_state) == task_state = "exited"

\* A faulty stop that hands the error of the revocation to its caller.
StopResultPropagates(revoked) == IF revoked = "err" THEN "err" ELSE "ok"

\* stop: the result of revoke_lease is logged, and stop ends with Ok(()).
StopResult(revoked) == "ok"

\* stop: keep_alive_task.take() and, with a task, sender.send(()), which fails
\* when the task has returned and dropped the receiver.
Stop ==
    /\ pc = "idle"
    /\ call' = NewCall("stop", "", "")
    /\ keep_alive_task' = FALSE
    /\ IF keep_alive_task
       THEN /\ stop_signal' = IF KaRunning THEN "sent" ELSE stop_signal
            /\ stop_log' = <<Did("signal", IF KaRunning THEN "ok" ELSE "err")>>
            /\ pc' = "stop_join_keep_alive"
       ELSE /\ stop_log' = <<>>
            /\ pc' = "stop_watch"
            /\ UNCHANGED stop_signal
    /\ step' = NoCall
    /\ UNCHANGED <<cache_vars, rx, store, watch_stream, lease_id, watch_task, resp, ret, peer_ops>>
    /\ UNCHANGED <<ka, app_die, wt, self_lease>>

\* stop: handle.await on the keep-alive task; an Err (the task panicked) is
\* logged like an Ok.
StopJoinKeepAlive ==
    /\ pc = "stop_join_keep_alive"
    /\ Joined(ka.state)
    /\ \E result \in {"ok", "err"} : StopLog("join_keep_alive", result)
    /\ pc' = "stop_watch"
    /\ step' = NoCall
    /\ UNCHANGED <<cache_vars, rx, store, watch_stream, lease_id, keep_alive_task,
                   watch_task, call, resp, ret, peer_ops>>
    /\ UNCHANGED <<ka, stop_signal, app_die, wt, self_lease>>

\* stop: watch_task.take() and, with a task, watcher.cancel(). The watch
\* stream ends for the task when the store takes the cancel, and has ended
\* already when the cancel cannot be sent.
StopCancelWatch ==
    /\ pc = "stop_watch"
    /\ watch_task' = FALSE
    /\ IF watch_task
       THEN /\ \E result \in {"ok", "err"} : StopLog("cancel", result)
            /\ wt' = IF wt = "running" THEN "cancelled" ELSE wt
            /\ pc' = "stop_join_watch"
       ELSE /\ pc' = "stop_revoke"
            /\ UNCHANGED <<stop_log, wt>>
    /\ step' = NoCall
    /\ UNCHANGED <<cache_vars, rx, store, watch_stream, lease_id, keep_alive_task,
                   call, resp, ret, peer_ops>>
    /\ UNCHANGED <<ka, stop_signal, app_die, self_lease>>

\* stop: handle.await on the watch task.
StopJoinWatch ==
    /\ pc = "stop_join_watch"
    /\ Joined(wt)
    /\ \E result \in {"ok", "err"} : StopLog("join_watch", result)
    /\ pc' = "stop_revoke"
    /\ step' = NoCall
    /\ UNCHANGED <<cache_vars, rx, store, watch_stream, lease_id, keep_alive_task,
                   watch_task, call, resp, ret, peer_ops>>
    /\ UNCHANGED <<ka, stop_signal, app_die, wt, self_lease>>

\* The store after lease_revoke(lease): the keys bound to the lease go.
RevokedStore(st, lease) ==
    IF self_lease = lease /\ lease # 0 THEN MapRemove(st, EtcdServerKey(this_server)) ELSE st

\* stop: revoke_lease, which revokes when lease_id is Some and leaves
\* lease_id as it is, and the Ok(()) that ends stop.
StopRevoke ==
    /\ pc = "stop_revoke"
    /\ \E revoked \in (IF lease_id # 0 THEN {"ok", "err"} ELSE {"none"}) :
          /\ StopLog("revoke", revoked)
          /\ store' = IF revoked = "ok" THEN RevokedStore(store, lease_id) ELSE store
          /\ self_lease' = IF revoked = "ok" /\ self_lease = lease_id THEN 0 ELSE self_lease
          /\ IF revoked = "ok" /\ self_lease = lease_id /\ lease_id # 0
             THEN Watched(DeleteEvent(EtcdServerKey(this_server)))
             ELSE UNCHANGED watch_stream
          /\ Return(call, StopResult(revoked), {})
    /\ step' = NoCall
    /\ UNCHANGED <<cache_vars, rx, lease_id, keep_alive_task, watch_task, peer_ops>>
    /\ UNCHANGED <<ka, stop_signal, app_die, wt>>

\* ------------------------------------------------- the engine in a cluster

Init ==
    /\ servers_by_id = EmptyMap
    /\ servers_by_kind = EmptyMap
    /\ chan = <<>>
    /\ chan_cap = NextPowerOfTwo(max_chan_size)
    /\ rx = [r \in Subs |-> NoReceiver]
    /\ step = NoCall
    /\ store = EmptyMap
    /\ InitEngine

Next ==
    \/ StartLeaseGrant
    \/ StartKeepAlive
    \/ StartPut
    \/ StartWatch
    \/ \E id \in Ids, k \in Kinds : ServerById(id, k)
    \/ ServerByIdGet
    \/ \E k \in Kinds : ServersByKind(k)
    \/ CacheServerKindGet
    \/ CacheServerKindLoop
    \/ FinalRead
    \/ Resume
    \/ WatchConsume
    \/ PeerPut
    \/ PeerDelete

Spec == Init /\ [][Next]_vars

\* ---------------------------------------------- the cache on its own

\* ServersCache::new.
InitCache ==
    /\ servers_by_id = EmptyMap
    /\ servers_by_kind = EmptyMap
    /\ chan = <<>>
    /\ chan_cap = NextPowerOfTwo(ChanCap)
    /\ rx = [r \in Subs |-> NoReceiver]
    /\ step = NoCall
    /\ store = EmptyMap
    /\ InitEngine

CanSend == Len(chan) < MaxSent

CallInsert ==
    \E s \in Server :
        /\ InsertNotifies(servers_by_id, s) => CanSend
        /\ CacheInsert(s)
        /\ step' = InsertCall(s, "caller")
        /\ UNCHANGED rx
        /\ UNCHANGED engine_vars

CallRemove ==
    \E k \in Kinds, id \in Ids :
        /\ RemoveNotifies(servers_by_id, id) => CanSend
        /\ CacheRemove(k, id)
        /\ step' = RemoveCall(k, id, "caller")
        /\ UNCHANGED rx
        /\ UNCHANGED engine_vars

NextCache ==
    \/ CallInsert
    \/ CallRemove
    \/ \E r \in Subs : Subscribe(r)
    \/ \E r \in Subs : Recv(r)
    \/ \E r \in Subs : Unsubscribe(r)

SpecCache == InitCache /\ [][NextCache]_vars

\* ------------------------------------------------ properties of the cache

\* The ids that servers_by_kind holds under kind k.
IdsOfKind(byKind, k) == IF k \in DOMAIN byKind THEN DOMAIN byKind[k] ELSE {}

\* C1: every entry (id, s) of servers_by_id is in servers_by_kind[s.kind]
\* under the same id with the same record.
C1_ByIdInByKind ==
    \A id \in DOMAIN servers_by_id :
        LET s == servers_by_id[id] IN
        /\ id \in IdsOfKind(servers_by_kind, s.kind)
        /\ servers_by_kind[s.kind][id] = s

\* C2: every entry (id, s) of servers_by_kind[k] has k = s.kind and
\* servers_by_id[id] = s, and no id appears under two kinds.
C2_ByKindInById ==
    /\ \A k \in DOMAIN servers_by_kind :
           \A id \in DOMAIN servers_by_kind[k] :
               LET s == servers_by_kind[k][id] IN
               /\ s.kind = k
               /\ id \in DOMAIN servers_by_id
               /\ servers_by_id[id] = s
    /\ \A k1, k2 \in DOMAIN servers_by_kind :
           k1 # k2 => DOMAIN servers_by_kind[k1] \cap DOMAIN servers_by_kind[k2] = {}

\* servers_by_kind after a removal that takes only id out of the entry of
\* kind, and drops the kind key only when its nested mapping becomes empty.
RemoveOnlyId(byKind, kind, id) ==
    IF kind \notin DOMAIN byKind THEN byKind
    ELSE IF DOMAIN byKind[kind] \subseteq {id} THEN MapRemove(byKind, kind)
    ELSE MapInsert(byKind, kind, MapRemove(byKind[kind], id))

\* C3: remove(kind, id) takes only the entry of id out of
\* servers_by_kind[kind]; the other ids of that kind stay, and the kind key
\* goes only when the removal leaves its nested mapping empty.
C3_RemoveOnlyTheId ==
    [][step'.op = "remove" =>
          servers_by_kind' = RemoveOnlyId(servers_by_kind, step'.kind, step'.id)]_vars

\* The notifications of ch that are about server id, in order.
RECURSIVE AboutId(_, _)
AboutId(ch, id) ==
    IF ch = <<>> THEN <<>>
    ELSE IF Head(ch).type \in {"ServerAdded", "ServerRemoved"} /\ Head(ch).server.id = id
         THEN <<Head(ch)>> \o AboutId(Tail(ch), id)
         ELSE AboutId(Tail(ch), id)

\* How many notifications of ch have the given type.
RECURSIVE CountType(_, _)
CountType(ch, type) ==
    IF ch = <<>> THEN 0
    ELSE (IF Head(ch).type = type THEN 1 ELSE 0) + CountType(Tail(ch), type)

\* ch is Added, Removed, Added, ... starting with the given type.
Alternates(ch, first) ==
    \A i \in 1..Len(ch) :
        ch[i].type = IF i % 2 = 1 THEN first
                     ELSE IF first = "ServerAdded" THEN "ServerRemoved" ELSE "ServerAdded"

\* C4: an insert of an absent id sends exactly one ServerAdded, an insert of
\* a present id sends nothing, and so no id has two ServerAdded in a row.
C4_InsertNotifiesOnce ==
    [][step'.op = "insert" =>
          /\ chan' = IF step'.server.id \in DOMAIN servers_by_id
                     THEN chan
                     ELSE Append(chan, ServerAdded(step'.server))
          /\ \A i \in 1..(Len(AboutId(chan', step'.server.id)) - 1) :
                 ~ /\ AboutId(chan', step'.server.id)[i].type = "ServerAdded"
                   /\ AboutId(chan', step'.server.id)[i + 1].type = "ServerAdded"]_vars

\* An id was inserted again with another record, and one ServerAdded was sent.
C4_Witness ==
    /\ step.op = "insert"
    /\ chan = <<ServerAdded([step.server EXCEPT !.kind = "room"])>>
    /\ step.server.kind = "conn"
    /\ servers_by_id[step.server.id] = step.server

\* C5: for every id the notifications sent form Added, Removed, Added, ...
\* and the id is cached exactly when the last of them is an Added.
C5_NotificationsAlternate ==
    \A id \in Ids :
        /\ Alternates(AboutId(chan, id), "ServerAdded")
        /\ id \in DOMAIN servers_by_id <=> Len(AboutId(chan, id)) % 2 = 1

\* Some id went through Added, Removed, Added.
C5_Witness ==
    \E id \in Ids : Len(AboutId(chan, id)) = 3

\* Whether id was cached when ch had n notifications.
CachedAt(ch, n, id) == Len(AboutId(SubSeq(ch, 1, n), id)) % 2 = 1

\* The position in ch a receiver reaches from position p by receiving got:
\* a Lagged(missed) stands for missed notifications, and anything else must
\* be the next notification of ch; -1 when got is not such a reading of ch.
RECURSIVE ReadsTo(_, _, _)
ReadsTo(got, ch, p) ==
    IF got = <<>> THEN p
    ELSE IF Head(got).type = "Lagged"
         THEN IF Head(got).missed >= 1 /\ p + Head(got).missed <= Len(ch)
              THEN ReadsTo(Tail(got), ch, p + Head(got).missed)
              ELSE -1
         ELSE IF p < Len(ch) /\ ch[p + 1] = Head(got)
              THEN ReadsTo(Tail(got), ch, p + 1)
              ELSE -1

\* C6: what a subscriber receives is what the cache sent since it subscribed,
\* in that order, every gap being reported as a lag; so a subscriber that
\* never lagged and subscribed while an id was not cached has received for it
\* Added, Removed, ... in turn: one Added and then one Removed once it has
\* read up to the first removal.
C6_SubscriberSeesAddedThenRemoved ==
    \A r \in Subs :
        rx[r].state # "none" =>
            /\ ReadsTo(rx[r].got, chan, rx[r].start) = rx[r].next
            /\ \A id \in Ids :
                   (CountType(rx[r].got, "Lagged") = 0 /\ ~CachedAt(chan, rx[r].start, id)) =>
                       /\ Alternates(AboutId(rx[r].got, id), "ServerAdded")
                       /\ (CachedAt(chan, rx[r].next, id) <=>
                               Len(AboutId(rx[r].got, id)) % 2 = 1)

\* A subscriber received one Added and then one Removed of an id.
C6_Witness ==
    \E r \in Subs, id \in Ids :
        /\ rx[r].state = "active"
        /\ Len(rx[r].got) = 2
        /\ Len(AboutId(rx[r].got, id)) = 2
        /\ rx[r].got[1].type = "ServerAdded"
        /\ rx[r].got[2].type = "ServerRemoved"

\* A subscriber was told of a lag.
C6_LagReached ==
    \E r \in Subs : CountType(rx[r].got, "Lagged") > 0

\* ------------------------------------------------ properties of the queries

\* The step in which a call returns.
Returns(op) == pc # "returned" /\ pc' = "returned" /\ call'.op = op

\* The servers that the values of a prefix read decode to.
ServersRead(read) == {Decode(read[i]).server : i \in 1..Len(read)}

\* The records servers_by_id holds.
ServersCached(byId) == {byId[id] : id \in DOMAIN byId}

\* C7: server_by_id returns the cached record without a store read when the
\* id is cached; otherwise it reads the prefix of the kind, inserts every
\* server read, and returns the record of the id exactly when the cache
\* holds one after the fill. Starting from an empty cache and run on its
\* own, the call leaves in servers_by_id exactly the servers read.
C7_ServerByIdFillsThenLooksUp ==
    [][Returns("server_by_id") =>
          LET c == call' IN
          /\ c.id \in DOMAIN c.by_id0 =>
                 /\ ret' = Returned("ok", {c.by_id0[c.id]})
                 /\ c.reads = 0
          /\ c.id \notin DOMAIN c.by_id0 =>
                 /\ c.reads >= 1
                 /\ ret'.status = "ok" =>
                        /\ ret'.value = OnlyServerById(servers_by_id', c.id)
                        /\ c.read = PrefixRead(store', c.kind) \/ c.peer_ops0 # peer_ops'
                        /\ c.alone => ServersRead(c.read) \subseteq ServersCached(servers_by_id')
                        /\ (c.alone /\ c.by_id0 = EmptyMap) =>
                               ServersCached(servers_by_id') = ServersRead(c.read)]_vars

\* A miss on an empty cache returned None and left the servers of the kind cached.
C7_Witness ==
    /\ pc = "returned"
    /\ call.op = "server_by_id"
    /\ call.by_id0 = EmptyMap
    /\ call.alone
    /\ ret = Returned("ok", {})
    /\ servers_by_id # EmptyMap
    /\ ServersCached(servers_by_id) = ServersRead(PrefixRead(store, call.kind))

\* C8: servers_by_kind(k) returns the records of servers_by_kind[k] as its
\* final snapshot finds them, with no store read when the first snapshot is
\* not empty and one prefix read otherwise; and every server of kind k that
\* servers_by_id holds at that moment is in the returned list.
C8_ServersByKindReturnsTheKind ==
    [][(Returns("servers_by_kind") /\ ret'.status = "ok") =>
          LET c == call' IN
          /\ ret'.value = OnlyServersByKind(servers_by_kind', c.kind)
          /\ c.reads = IF OnlyServersByKind(c.by_kind0, c.kind) # {} THEN 0 ELSE 1
          /\ \A id \in DOMAIN servers_by_id' :
                 servers_by_id'[id].kind = c.kind => servers_by_id'[id] \in ret'.value]_vars

\* The call ran with no watch event applied and no store change in between.
RanAlone(c) == c.alone /\ c.peer_ops0 = peer_ops'

\* What C9 promises of a call that returns.
EmptyAndUntouched(c) ==
    /\ ret' = Returned("ok", {})
    /\ servers_by_id' = c.by_id0
    /\ servers_by_kind' = c.by_kind0
    /\ Len(chan') = c.sent0

\* C9 as claimed: servers_by_kind(k), when the store holds no server under
\* k, returns an empty list, leaves both indices as they were and sends no
\* notification.
C9_KindMissAsClaimed ==
    [][(Returns("servers_by_kind") /\ ret'.status = "ok" /\ RanAlone(call')
            /\ PrefixRead(store', call'.kind) = <<>>) =>
          EmptyAndUntouched(call')]_vars

\* C9 as amended: the same, for a kind of which the cache holds no entry
\* either when the call starts.
C9_KindMissOnEmptyKind ==
    [][(Returns("servers_by_kind") /\ ret'.status = "ok" /\ RanAlone(call')
            /\ PrefixRead(store', call'.kind) = <<>>
            /\ call'.kind \notin DOMAIN call'.by_kind0) =>
          EmptyAndUntouched(call')]_vars

\* A kind miss returned nothing although the store and the cache held servers.
C9_Witness ==
    /\ pc = "returned"
    /\ call.op = "servers_by_kind"
    /\ call.alone
    /\ call.peer_ops0 = peer_ops
    /\ call.reads = 1
    /\ call.kind \notin DOMAIN call.by_kind0
    /\ PrefixRead(store, call.kind) = <<>>
    /\ store # EmptyMap
    /\ servers_by_id # EmptyMap
    /\ ret = Returned("ok", {})

\* ------------------------------------- one server, no peers, one subscriber

\* The subscriber has subscribed before start is called.
InitSolo ==
    /\ servers_by_id = EmptyMap
    /\ servers_by_kind = EmptyMap
    /\ chan = <<>>
    /\ chan_cap = NextPowerOfTwo(max_chan_size)
    /\ rx = [r \in Subs |-> NewReceiver(<<>>)]
    /\ step = NoCall
    /\ store = EmptyMap
    /\ InitEngine

\* The caller starts the engine and queries it; no other server writes.
NextSolo ==
    \/ StartLeaseGrant
    \/ StartKeepAlive
    \/ StartPut
    \/ StartWatch
    \/ \E id \in Ids, k \in Kinds : ServerById(id, k)
    \/ ServerByIdGet
    \/ \E k \in Kinds : ServersByKind(k)
    \/ CacheServerKindGet
    \/ CacheServerKindLoop
    \/ FinalRead
    \/ Resume
    \/ \E r \in Subs : Recv(r)

SpecSolo == InitSolo /\ [][NextSolo]_vars

\* C10: with one server and no peers, the watch has nothing to apply (the
\* put of start came before it), so nothing is sent until a fill inserts
\* this server; what is sent, and so what the subscriber receives, is one
\* ServerAdded of this server and no ServerRemoved, and it has been sent
\* when servers_by_kind of this server's kind returns after start.
C10_OneAddedAfterFill ==
    [][/\ watch_stream' = <<>>
       /\ chan' # chan => (step'.op = "insert" /\ step'.by = "fill" /\ chan = <<>>)
       /\ chan' \in {<<>>, <<ServerAdded(this_server)>>}
       /\ \A r \in Subs : rx'[r].got = SubSeq(chan', 1, rx'[r].next)
       /\ (Returns("servers_by_kind") /\ call'.kind = this_server.kind /\ ret'.status = "ok"
              /\ watch_task') =>
              /\ ret'.value = {this_server}
              /\ chan' = <<ServerAdded(this_server)>>]_vars

\* After servers_by_kind of its kind the subscriber has the one ServerAdded.
C10_Witness ==
    /\ pc = "returned"
    /\ call.op = "servers_by_kind"
    /\ call.kind = this_server.kind
    /\ call.reads = 1
    /\ watch_task
    /\ ret = Returned("ok", {this_server})
    /\ \A r \in Subs : rx[r].got = <<ServerAdded(this_server)>>

\* ------------------------------------------------ start, stop and the tasks

\* The caller starts and stops the engine, in any order and as often as it
\* likes, while the two background tasks run and end.
NextLife ==
    \/ StartLeaseGrant
    \/ StartKeepAlive
    \/ StartPut
    \/ StartWatch
    \/ StartAssertFails
    \/ Stop
    \/ StopJoinKeepAlive
    \/ StopCancelWatch
    \/ StopJoinWatch
    \/ StopRevoke
    \/ Resume
    \/ KaTick
    \/ KaRefreshOk
    \/ KaRefreshFail
    \/ KaStreamEnd
    \/ KaStop
    \/ WatchFail
    \/ WatchExit

SpecLife == Init /\ [][NextLife]_vars

\* The tokio runtime runs every task that can make a step: stop goes on when
\* what it awaits is ready, and a task whose channel or stream has something
\* for it handles it.
SpecLifeFair ==
    /\ Init
    /\ [][NextLife]_vars
    /\ WF_vars(StopJoinKeepAlive)
    /\ WF_vars(StopCancelWatch)
    /\ WF_vars(StopJoinWatch)
    /\ WF_vars(StopRevoke)
    /\ WF_vars(KaStop)
    /\ WF_vars(WatchExit)

Last(s) == s[Len(s)]

\* The steps stop is at between its call and its return.
StopPcs == {"stop_join_keep_alive", "stop_watch", "stop_join_watch", "stop_revoke"}

\* C11: when start returns Ok, lease_id is set, keep_alive_task is present
\* and this server's key is in the store bound to that lease; when a stop
\* after that returns, lease_id and keep_alive_task are both cleared.
C11_LeaseLifecycle ==
    [][/\ (Returns("start") /\ ret'.status = "ok") =>
              /\ lease_id' # 0
              /\ keep_alive_task'
              /\ EtcdServerKey(this_server) \in DOMAIN store'
              /\ self_lease' = lease_id'
       /\ (Returns("stop") /\ wt' # "none") =>
              /\ lease_id' = 0
              /\ ~keep_alive_task']_vars

\* C12: whenever start is called, grant_lease finds lease_id absent and
\* keep_alive_task absent, so that neither of its assertions fails.
C12_GrantPrecondition ==
    [][(pc = "idle" /\ pc' # "idle" /\ call'.op = "start") =>
          /\ lease_id = 0
          /\ ~keep_alive_task
          /\ pc' # "panicked"]_vars

\* What stop did, without how it went.
RECURSIVE Whats(_)
Whats(log) == IF log = <<>> THEN <<>> ELSE <<Head(log).what>> \o Whats(Tail(log))

\* How often stop attempted the revocation.
RECURSIVE RevokeAttempts(_)
RevokeAttempts(log) ==
    IF log = <<>> THEN 0
    ELSE (IF Head(log).what = "revoke" /\ Head(log).result # "none" THEN 1 ELSE 0)
         + RevokeAttempts(Tail(log))

\* The teardown steps of a stop that held the given handles, in order.
TeardownOf(had_keep_alive, had_watch) ==
    (IF had_keep_alive THEN <<"signal", "join_keep_alive">> ELSE <<>>)
    \o (IF had_watch THEN <<"cancel", "join_watch">> ELSE <<>>)
    \o <<"revoke">>

\* C13: stop signals the keep-alive task when it holds one, cancels the
\* watch when it holds one, and comes to the revocation only when neither
\* task is running any more; it attempts the revocation at most once, and
\* only with a lease id.
C13_RevokeAfterTheTasks ==
    [][/\ (pc = "idle" /\ pc' \in StopPcs /\ keep_alive_task) =>
              /\ Whats(stop_log') = <<"signal">>
              /\ KaRunning => stop_signal' = "sent"
       /\ (pc = "stop_watch" /\ pc' # pc /\ watch_task) =>
              /\ Last(stop_log').what = "cancel"
              /\ wt' # "running"
       /\ (pc = "stop_revoke" /\ pc' # pc) =>
              /\ ka.state \in {"none", "exited"}
              /\ wt \in {"none", "exited"}
              /\ RevokeAttempts(stop_log') <= 1
              /\ RevokeAttempts(stop_log') = 1 <=> lease_id # 0
              /\ \E k, w \in BOOLEAN : Whats(stop_log') = TeardownOf(k, w)]_vars

\* A stop signalled, joined, cancelled, joined and revoked.
C13_Witness ==
    /\ pc = "returned"
    /\ call.op = "stop"
    /\ Whats(stop_log) = TeardownOf(TRUE, TRUE)
    /\ RevokeAttempts(stop_log) = 1
    /\ ka.exit = "clean"
    /\ wt = "exited"

RECURSIVE FiredBy(_, _)
FiredBy(fired, who) ==
    IF fired = <<>> THEN 0
    ELSE (IF Head(fired) = who THEN 1 ELSE 0) + FiredBy(Tail(fired), who)

\* C15: the keep-alive task fires app-die exactly when it exits on the third
\* refresh failure in a row or on the end of the keep-alive stream; it exits
\* without firing when the stop signal arrives; and a success after fewer
\* than three failures takes it back to Idle without firing.
C15_AppDieOnFailureOnly ==
    [][/\ FiredBy(app_die', "keep_alive") =
              IF ka'.state = "exited" /\ ka'.exit \in {"failed", "stream"} THEN 1 ELSE 0
       /\ (ka.state # "exited" /\ ka'.state = "exited") =>
              /\ ka'.exit = "failed" <=> (ka.state = "refreshing" /\ ka.failures = 2
                                             /\ ka'.failures = 3)
              /\ ka'.exit = "clean" => stop_signal = "sent"
              /\ ka'.exit \in {"failed", "stream", "clean"}
       /\ (ka.state = "refreshing" /\ ka'.state = "idle") =>
              /\ ka'.failures = 0 \/ (ka.failures < 2 /\ ka'.failures = ka.failures + 1)
              /\ app_die' = app_die]_vars

\* The task gave up on the third failure in a row and fired app-die once.
C15_Witness ==
    /\ ka.state = "exited"
    /\ ka.exit = "failed"
    /\ ka.failures = 3
    /\ app_die = <<"keep_alive">>

\* ------------------------------------------- the engine's cache, two subscribers

\* Notifications the cache may send in one behaviour with two subscribers.
MaxBusSent == 5

\* Two subscribers of one engine.
BusSubs == {"s1", "s2"}

\* The servers the watch task and the fills bring to the cache here.
BusServers == {s \in Server : s.kind = this_server.kind}

\* The cache of an engine before any server is known, nobody subscribed.
InitBus ==
    /\ servers_by_id = EmptyMap
    /\ servers_by_kind = EmptyMap
    /\ chan = <<>>
    /\ chan_cap = NextPowerOfTwo(max_chan_size)
    /\ rx = [r \in BusSubs |-> NoReceiver]
    /\ step = NoCall
    /\ store = EmptyMap
    /\ InitEngine

\* A server appears: insert under the write lock.
BusInsert ==
    \E s \in BusServers :
        /\ InsertNotifies(servers_by_id, s) => Len(chan) < MaxBusSent
        /\ CacheInsert(s)
        /\ step' = InsertCall(s, "caller")
        /\ UNCHANGED rx
        /\ UNCHANGED engine_vars

\* A server goes: remove under the write lock.
BusRemove ==
    \E s \in BusServers :
        /\ RemoveNotifies(servers_by_id, s.id) => Len(chan) < MaxBusSent
        /\ CacheRemove(s.kind, s.id)
        /\ step' = RemoveCall(s.kind, s.id, "caller")
        /\ UNCHANGED rx
        /\ UNCHANGED engine_vars

NextBus ==
    \/ BusInsert
    \/ BusRemove
    \/ \E r \in BusSubs : Subscribe(r)
    \/ \E r \in BusSubs : Recv(r)

SpecBus == InitBus /\ [][NextBus]_vars

\* What the subscriber has not received yet of what was sent.
Pending(r) == Len(chan) - rx[r].next

\* The step is a receive of subscriber r.
Receives(r) == rx[r].state = "active" /\ rx'[r] # rx[r]

\* The capacity asked for, rounded up to a power of two.
RoundedUp(capacity) == CHOOSE p \in {1, 2, 4, 8, 16} : p >= capacity /\ p < 2 * capacity

\* A receive of r with more than limit notifications pending drops the oldest
\* ones for r and reports the lag; the other subscribers are left as they
\* are, a subscriber that never lagged has received all that was sent since
\* it subscribed, in order, and a send changes no receiver.
SlowSubscriberDropsBeyond(limit) ==
    /\ \A r \in BusSubs :
           Receives(r) =>
               /\ Pending(r) > limit =>
                      /\ Last(rx'[r].got) = [type |-> "Lagged", missed |-> Pending(r) - limit]
                      /\ Pending(r)' = limit
               /\ \A q \in BusSubs \ {r} : rx'[q] = rx[q]
    /\ \A r \in BusSubs :
           (rx'[r].state = "active" /\ CountType(rx'[r].got, "Lagged") = 0) =>
               rx'[r].got = SubSeq(chan', rx'[r].start + 1, rx'[r].next)
    /\ chan' # chan => rx' = rx

\* Whatever the subscribers have or have not received, the cache can send.
ProducerNeverWaits ==
    Len(chan) < MaxBusSent => ENABLED ((BusInsert \/ BusRemove) /\ chan' # chan)

\* C16 as claimed: the limit is the capacity the engine asks for.
C16_LagBeyondTheCapacityAsked ==
    [][SlowSubscriberDropsBeyond(max_chan_size)]_vars

\* C16 as amended: the limit is the length of the channel's buffer, the
\* capacity asked for rounded up to a power of two; up to that many pending
\* notifications a receive returns the oldest one and reports no lag.
C16_LagBeyondTheBuffer ==
    /\ [][/\ SlowSubscriberDropsBeyond(RoundedUp(max_chan_size))
          /\ \A r \in BusSubs :
                 (Receives(r) /\ Pending(r) <= RoundedUp(max_chan_size)) =>
                     Last(rx'[r].got) = chan[rx[r].next + 1]]_vars
    /\ []ProducerNeverWaits

\* One subscriber fell behind and was told of the lag; the other received
\* every notification.
C16_Witness ==
    /\ CountType(rx["s1"].got, "Lagged") = 1
    /\ Len(chan) > RoundedUp(max_chan_size)
    /\ rx["s2"].got = chan

\* Nobody holds a receiver but the cache itself.
NoSubscriber == \A r \in BusSubs : rx[r].state # "active"

\* The step leaves every entry of servers_by_id but that of id as it was.
OthersKept(id) ==
    /\ DOMAIN servers_by_id' \ {id} = DOMAIN servers_by_id \ {id}
    /\ \A other \in DOMAIN servers_by_id \ {id} : servers_by_id'[other] = servers_by_id[other]

\* C17: with or without subscribers an insert leaves the server in both
\* indices and a remove takes the id out of servers_by_id, touching no
\* receiver; with no subscriber a notifying insert or remove is still
\* possible, also beyond the capacity of the channel, and what was sent then
\* reaches nobody: a later subscriber starts after it and receives only
\* what is sent from then on.
C17_SendWithNoSubscriber ==
    /\ [][/\ step'.op = "insert" =>
                 /\ step'.server.id \in DOMAIN servers_by_id'
                 /\ servers_by_id'[step'.server.id] = step'.server
                 /\ OthersKept(step'.server.id)
                 /\ step'.server.id \in IdsOfKind(servers_by_kind', step'.server.kind)
                 /\ servers_by_kind'[step'.server.kind][step'.server.id] = step'.server
                 /\ rx' = rx
          /\ step'.op = "remove" =>
                 /\ step'.id \notin DOMAIN servers_by_id'
                 /\ OthersKept(step'.id)
                 /\ rx' = rx
          /\ \A r \in BusSubs :
                 /\ (rx[r].state = "none" /\ rx'[r].state = "active") =>
                        rx'[r] = [state |-> "active", start |-> Len(chan), next |-> Len(chan),
                                  got |-> <<>>]
                 /\ Receives(r) =>
                        /\ rx'[r].start = rx[r].start
                        /\ rx'[r].next > rx[r].start
                        /\ Last(rx'[r].got).type # "Lagged" =>
                               Last(rx'[r].got) = chan[rx'[r].next]]_vars
    /\ [](NoSubscriber => ProducerNeverWaits)

\* More notifications than the channel retains were sent with no subscriber,
\* and the subscriber that came then has nothing to receive.
C17_Witness ==
    /\ rx["s2"].state = "none"
    /\ rx["s1"].state = "active"
    /\ rx["s1"].start > chan_cap
    /\ rx["s1"].next = Len(chan)
    /\ rx["s1"].got = <<>>
    /\ servers_by_id # EmptyMap

\* ------------------------------------------------ errors of the queries

\* The value is the JSON of some server.
IsServerJson(v) == \E s \in Server : v = Encode(s)

\* The step in which a query returns.
QueryReturns ==
    pc # "returned" /\ pc' = "returned" /\ call'.op \in {"server_by_id", "servers_by_kind"}

\* C18: a query whose prefix read fails returns Err and leaves the cache and
\* the notifications sent as they were, and a query whose fill read a value
\* that is no valid server returns Err; so no query that returns Ok, be it
\* with an absent server or an empty list, has had a failure.
C18_QueriesSurfaceErrors ==
    [][QueryReturns =>
          LET c == call' IN
          /\ pc \in {"sbi_get", "fill_get"} =>
                 /\ ret'.status = "err"
                 /\ servers_by_id' = servers_by_id
                 /\ servers_by_kind' = servers_by_kind
                 /\ chan' = chan
                 /\ c.alone => /\ servers_by_id' = c.by_id0
                               /\ servers_by_kind' = c.by_kind0
                               /\ Len(chan') = c.sent0
          /\ (\E i \in 1..Len(c.read) : ~IsServerJson(c.read[i])) => ret'.status = "err"
          /\ ret'.status = "ok" =>
                 /\ pc \notin {"sbi_get", "fill_get"}
                 /\ \A i \in 1..Len(c.read) : IsServerJson(c.read[i])]_vars

\* servers_by_kind read a server and then a value that is none, and returned Err.
C18_Witness ==
    /\ pc = "returned"
    /\ call.op = "servers_by_kind"
    /\ ret.status = "err"
    /\ Len(call.read) = 2
    /\ IsServerJson(call.read[1])
    /\ ~IsServerJson(call.read[2])

\* ------------------------------------------------ remove by another kind

\* C19: remove(kind, id) of an id cached under another kind than the one
\* given takes the id out of servers_by_id and out of servers_by_kind under
\* the record's own kind, and leaves the entry of the kind given as it was.
C19_RemoveByTheRecordsKind ==
    [][(/\ step'.op = "remove"
        /\ step'.id \in DOMAIN servers_by_id
        /\ servers_by_id[step'.id].kind # step'.kind) =>
          /\ step'.id \notin DOMAIN servers_by_id'
          /\ step'.id \notin IdsOfKind(servers_by_kind', servers_by_id[step'.id].kind)
          /\ step'.kind \in DOMAIN servers_by_kind' <=> step'.kind \in DOMAIN servers_by_kind
          /\ step'.kind \in DOMAIN servers_by_kind =>
                 servers_by_kind'[step'.kind] = servers_by_kind[step'.kind]]_vars

\* ------------------------------------------------ store reads of a lookup

\* C20: a server_by_id that misses the cache and returns Ok has read the
\* prefix from the store exactly once, and one that hits has not read at all.
C20_OneReadPerMiss ==
    [][(Returns("server_by_id") /\ ret'.status = "ok") =>
          call'.reads = IF call'.id \in DOMAIN call'.by_id0 THEN 0 ELSE 1]_vars

\* ------------------------------------------------ insert, statement by statement

\* insert, first statement: servers_by_id.insert(id, server); the Option it
\* returns decides whether the or_else closure will notify.
InsertStart ==
    \E s \in Server :
        /\ pc = "idle"
        /\ InsertNotifies(servers_by_id, s) => CanSend
        /\ servers_by_id' = InsertById(servers_by_id, s)
        /\ pc' = IF InsertNotifies(servers_by_id, s) THEN "insert_notify" ELSE "insert_by_kind"
        /\ step' = InsertCall(s, "caller")
        /\ UNCHANGED <<servers_by_kind, chan, chan_cap, rx>>
        /\ UNCHANGED <<store, watch_stream, lease_id, keep_alive_task, watch_task, call, resp,
                       ret, peer_ops, life_vars>>

\* insert, the or_else closure: notify(ServerAdded(server)).
InsertSend ==
    /\ pc = "insert_notify"
    /\ chan' = Notify(chan, ServerAdded(step.server))
    /\ pc' = "insert_by_kind"
    /\ UNCHANGED <<servers_by_id, servers_by_kind, chan_cap, rx, step>>
    /\ UNCHANGED <<store, watch_stream, lease_id, keep_alive_task, watch_task, call, resp,
                   ret, peer_ops, life_vars>>

\* insert, last statement: the entry of servers_by_kind; insert returns.
InsertFinish ==
    /\ pc = "insert_by_kind"
    /\ servers_by_kind' = InsertByKind(servers_by_kind, step.server)
    /\ pc' = "idle"
    /\ UNCHANGED <<servers_by_id, chan, chan_cap, rx, step>>
    /\ UNCHANGED <<store, watch_stream, lease_id, keep_alive_task, watch_task, call, resp,
                   ret, peer_ops, life_vars>>

\* insert and remove take &mut self: a remove runs when no insert is under way.
NextInsert ==
    \/ InsertStart
    \/ InsertSend
    \/ InsertFinish
    \/ (pc = "idle" /\ CallRemove)

SpecInsert == InitCache /\ [][NextInsert]_vars

\* The two indices hold the server, each under its id.
BothHold(byId, byKind, s) ==
    /\ s.id \in DOMAIN byId
    /\ byId[s.id] = s
    /\ s.id \in IdsOfKind(byKind, s.kind)
    /\ byKind[s.kind][s.id] = s

\* C21: when insert sends the ServerAdded of a new server, servers_by_id and
\* servers_by_kind both hold that server already.
C21_AddedAfterBothIndices ==
    [][(chan' # chan /\ Last(chan').type = "ServerAdded") =>
          BothHold(servers_by_id, servers_by_kind, Last(chan').server)]_vars

\* ------------------------------------------------ the fill and the watch

\* The watch stream holds no event about the key.
NoEventOf(key, stream) == \A i \in 1..Len(stream) : stream[i].key # key

\* Neither index holds the server registered under the key.
NotCached(key, byId, byKind) ==
    /\ ~(key[2] \in DOMAIN byId /\ byId[key[2]].kind = key[1])
    /\ key[2] \notin IdsOfKind(byKind, key[1])

\* The server of the key is deleted, the watch task has processed every
\* event about it, and the cache does not hold it.
Gone(key) ==
    /\ watch_task
    /\ key \notin DOMAIN store
    /\ NoEventOf(key, watch_stream)
    /\ NotCached(key, servers_by_id, servers_by_kind)

\* C22: when the watch task has processed the Delete of a server, neither
\* index holds the server; and a server that is deleted, with no event about
\* it left to process and out of the cache, stays out of both indices for as
\* long as it is not registered again, whatever fill is under way.
C22_NoGhostAfterDelete ==
    [][\A key \in PeerKeys :
          /\ (step'.op = "remove" /\ step'.by = "watch"
                 /\ <<step'.kind, step'.id>> = key) =>
                 NotCached(key, servers_by_id', servers_by_kind')
          /\ (Gone(key) /\ key \notin DOMAIN store') =>
                 NotCached(key, servers_by_id', servers_by_kind')]_vars

\* ------------------------------------------------ a fill that fails

\* The step in which cache_server_kind returns the decode error of a value.
FillFails == pc = "fill_loop" /\ pc' = "returned" /\ ret'.status = "err"

\* The position in the read of the first value that does not decode.
FirstBad(read) == CHOOSE i \in 1..Len(read) :
    /\ ~Decode(read[i]).ok
    /\ \A j \in 1..(i - 1) : Decode(read[j]).ok

\* The servers of the values that precede the first one that does not decode.
Preceding(read) == {Decode(read[j]).server : j \in 1..(FirstBad(read) - 1)}

\* The ServerAdded notifications among those sent from position n on.
AddedSince(ch, n) ==
    {ch[i].server : i \in {j \in (n + 1)..Len(ch) : ch[j].type = "ServerAdded"}}

\* C23 as claimed: when cache_server_kind returns the decode error of a
\* value, with no watch event processed during the query, both indices are
\* as they were before the query and no notification has been sent.
C23_FillAllOrNothing ==
    [][(FillFails /\ call'.alone) =>
          /\ servers_by_id' = call'.by_id0
          /\ servers_by_kind' = call'.by_kind0
          /\ Len(chan') = call'.sent0]_vars

\* C23: when cache_server_kind returns the decode error of a value, with no
\* watch event processed during the query, both indices hold the servers of
\* the values that preceded it in the read, one ServerAdded has been sent for
\* each of them whose id was not cached, and the indices are otherwise as
\* they were before the query: nothing from the failing value on is there.
C23_FillKeepsWhatPreceded ==
    [][(FillFails /\ call'.alone) =>
          LET c == call'
              before == Preceding(c.read)
              ids == {s.id : s \in before}
              fresh == {s \in before : s.id \notin DOMAIN c.by_id0}
          IN
          /\ \A s \in before : BothHold(servers_by_id', servers_by_kind', s)
          /\ DOMAIN servers_by_id' = DOMAIN c.by_id0 \cup ids
          /\ \A id \in DOMAIN c.by_id0 \ ids : servers_by_id'[id] = c.by_id0[id]
          /\ DOMAIN servers_by_kind' = DOMAIN c.by_kind0 \cup {s.kind : s \in before}
          /\ \A k \in DOMAIN servers_by_kind' :
                 /\ DOMAIN servers_by_kind'[k] =
                        IdsOfKind(c.by_kind0, k) \cup {s.id : s \in {x \in before : x.kind = k}}
                 /\ \A id \in IdsOfKind(c.by_kind0, k) \ {s.id : s \in {x \in before : x.kind = k}} :
                        servers_by_kind'[k][id] = c.by_kind0[k][id]
          /\ Len(chan') = c.sent0 + Cardinality(fresh)
          /\ AddedSince(chan', c.sent0) = fresh]_vars

\* A fill has failed at its second value after it inserted the first and sent
\* the ServerAdded of it.
C23_Witness ==
    /\ pc = "returned"
    /\ call.op \in {"server_by_id", "servers_by_kind"}
    /\ ret.status = "err"
    /\ call.alone
    /\ Len(call.read) = 2
    /\ Decode(call.read[1]).ok
    /\ ~Decode(call.read[2]).ok
    /\ Decode(call.read[1]).server.id \notin DOMAIN call.by_id0
    /\ BothHold(servers_by_id, servers_by_kind, Decode(call.read[1]).server)
    /\ Len(chan) = call.sent0 + 1

====
